---- MODULE Spec2Model ----
(***************************************************************************)
(* A model of src/src/lifi_main.py: the LiFi channel (LiFiChannel), the    *)
(* framing transmitter (LiFiTransmitter) and the decoding receiver         *)
(* (LiFiReceiver).                                                         *)
(*                                                                         *)
(* Number representation.  Python floats are modelled in fixed point:      *)
(*   - signal levels, attenuations and the threshold in millionths         *)
(*     (1.0 = 1000000);                                                    *)
(*   - probabilities, random draws and scale factors in thousandths        *)
(*     (1.0 = 1000);                                                       *)
(*   - distances in tenths of a centimetre (0.1 cm = 1);                   *)
(*   - angles and beam widths in whole degrees.                            *)
(* Text is a sequence of character codes (ord of each character).          *)
(* The random module is a deterministic stream once seeded: the model      *)
(* draws the stream at Init (rng_stream, periodic) and every call of       *)
(* random.random() consumes its next element.                              *)
(***************************************************************************)
EXTENDS Integers, Sequences, FiniteSets, TLC

VARIABLES
    \* LiFiChannel
    distance, angle, noise_level, interference, natural_disturbance,
    led_beam_width, transmission_history,
    \* the distance argument the channel was constructed with (distance holds
    \* the floored value)
    distance_arg,
    \* LiFiTransmitter
    led_state, transmit_times, transmitted_bits, tx_result,
    \* LiFiReceiver
    threshold, received_data, handshake_received, bit_errors, total_bits,
    received_bits, register_values,
    \* locals of receive_transmission that live across loop iterations
    buffer, attempt_counter, expected_message, rx_result,
    \* the random module's stream and the position in it
    rng_stream, rng_pos,
    \* the simulated clock (milliseconds), advanced by the transmitter's sleeps
    clock,
    \* control: where the program is, the exception that ended it (if any),
    \* what the last completed call was with its argument and return value,
    \* how many top-level calls the driver has made and how many it may make
    pc, raised, last_call, calls, budget,
    \* LiFiSimulator.run_distance_test: its arguments, the list of distances
    \* it builds and the distance it is at
    start_distance, end_distance, distance_step, current_distance, distances,
    \* the rows of the test that is running
    test_results,
    \* LiFiSimulator.run_batch_test: its argument, the position in it and the
    \* rows collected
    test_configs, batch_index, all_results

vars == <<distance, angle, noise_level, interference, natural_disturbance,
          led_beam_width, transmission_history, distance_arg,
          led_state, transmit_times, transmitted_bits, tx_result,
          threshold, received_data, handshake_received, bit_errors, total_bits,
          received_bits, register_values,
          buffer, attempt_counter, expected_message, rx_result,
          rng_stream, rng_pos, clock, pc, raised, last_call, calls,
          budget, start_distance, end_distance, distance_step,
          current_distance, distances, test_results, test_configs,
          batch_index, all_results>>

channel_vars == <<distance, angle, noise_level, interference,
                  natural_disturbance, led_beam_width, distance_arg>>
tx_vars == <<led_state, transmit_times, transmitted_bits, tx_result, clock>>
rx_fields == <<received_data, handshake_received, bit_errors, total_bits,
               received_bits, register_values>>
rx_locals == <<buffer, attempt_counter, expected_message, rx_result>>
distance_vars == <<start_distance, end_distance, distance_step,
                   current_distance, distances>>
batch_vars == <<test_configs, batch_index, all_results>>
harness_vars == <<distance_vars, test_results, batch_vars>>

----------------------------------------------------------------------------
(* Bounds of the model *)

\* the driver makes at most this many top-level calls in one run of the link
MaxCalls == 2
\* ... in one run of the channel and transmitter alone
MaxChannelCalls == 2
\* ... and in one run of the link with the receive loop taken step by step
MaxLoopCalls == 2
\* ... and in one run of a receiver called again and again
MaxRepeatCalls == 3
\* ... and the triggering cycles of a receive whose characters are followed
MaxDecodeChars == 5
\* the sweep points run_angle_test gets to
MaxSweepPoints == 3
\* the distances run_distance_test puts on its list
MaxDistances == 3
\* the configurations of a batch
MaxConfigs == 3
\* the period of the random stream
RngPeriod == 3
\* the values random.random() can return, in thousandths (it is < 1.0)
RndValues == {0, 999}

(* Program constants *)

\* A loop bound that is one too many
max_attempts_plus_one == 1000 + 1

max_attempts == 1000
sampling_time == 5
CharDelay == 20

None == "None"
\* the value of tx_result and rx_result before the call has returned
NoResult == [none |-> TRUE]

----------------------------------------------------------------------------
(* Text *)

Handshake == <<60, 126, 33>>            \* "<~!"
EndMarker == 35                        \* "#"
MsgEmpty == << >>
MsgA == <<65>>
MsgHi == <<72, 105>>
\* a one-character message whose code does not fit in a byte: chr(321)
MsgWide == <<321>>

Max(a, b) == IF a >= b THEN a ELSE b
Min(a, b) == IF a <= b THEN a ELSE b
Abs(a) == IF a >= 0 THEN a ELSE -a

RECURSIVE Pow2(_)
Pow2(n) == IF n = 0 THEN 1 ELSE 2 * Pow2(n - 1)

\* (x >> i) & 0x01
BitAt(x, i) == (x \div Pow2(i)) % 2

\* str.endswith
EndsWith(s, suffix) ==
    /\ Len(s) >= Len(suffix)
    /\ SubSeq(s, Len(s) - Len(suffix) + 1, Len(s)) = suffix

----------------------------------------------------------------------------
(* LiFiChannel.transmit *)

\* A variant of SafeDistance whose floor is 1.0 cm
SafeDistanceOne(d) == Max(10, d)

\* max(0.1, distance), in tenths of a centimetre
SafeDistance(d) == Max(1, d)

\* math.cos(math.radians(a)) in thousandths, for the angles of the model
\* (cos 90 degrees is 6.1e-17 in floating point: positive, 0 thousandths)
CosMilli(a) ==
    CASE a = 0 -> 1000
      [] a = 60 -> 500
      [] a = 90 -> 0
      [] a = -60 -> 500
      [] a = -120 -> -500

\* math.cos((angle_rad - math.pi) / 2) in thousandths, for the angles > 90
BackCosMilli(a) ==
    CASE a = 120 -> 866
      [] a = 180 -> 1000
      [] a = 200 -> 984

\* The exponent 1/power_factor as a fraction of 180:
\* power_factor = max(0.1, 2.0 / led_beam_width * 90) = max(0.1, 180/beam),
\* so 1/power_factor = beam/180, capped at 10 = 1800/180 (and 10 for a
\* negative beam width).  Only called with beam # 0.
ExponentNum(beam) == IF beam < 0 \/ beam > 1800 THEN 1800 ELSE beam

\* base ** (num/180) for a base >= 0, in thousandths
PowMilli(base, num) ==
    CASE base = 1000 -> 1000
      [] base = 0 -> 0
      [] base # 1000 /\ base # 0 /\ num = 180 -> base
      [] base = 500 /\ num = 120 -> 629
      [] base = 500 /\ num = 60 -> 793
      [] base = 500 /\ num = 360 -> 250

\* Lines 33-42: the angular attenuation in thousandths, or the exception the
\* computation raises: 2.0 / 0 is a ZeroDivisionError; a negative float to a
\* non-integer power is a complex number, which max(0.01, ...) cannot compare.
AngularAttenuation(a, beam) ==
    IF a <= 90
    THEN IF beam = 0
         THEN [raised |-> "ZeroDivisionError", value |-> 0]
         ELSE LET num == ExponentNum(beam)
                  c == CosMilli(a)
              IN IF c < 0 /\ num % 180 # 0
                 THEN [raised |-> "TypeError", value |-> 0]
                 ELSE IF c < 0
                      THEN \* an integer power of a negative base is real
                           LET p == PowMilli(-c, num)
                               v == IF (num \div 180) % 2 = 0 THEN p ELSE -p
                           IN [raised |-> "None", value |-> Max(10, v)]
                      ELSE [raised |-> "None",
                            value |-> Max(10, PowMilli(c, num))]
    ELSE [raised |-> "None",
          value |-> Max(10, (50 * BackCosMilli(a)) \div 1000)]

\* Lines 25-26 and 45: distance_attenuation * angular_attenuation in
\* millionths, 10.0 / safe_distance ** 2 being 1000 / d^2 for d in tenths
Attenuation(d, angMilli) ==
    (1000000 * angMilli) \div (SafeDistance(d) * SafeDistance(d))

\* Lines 343-353 (and 439-449): the theoretical signal strength of the sweep
\* harness in millionths.  power_factor is 0.1 for a beam width that is not
\* positive, so that the exponent is 10 there; the product of the angular
\* and the distance term is floored at 0.01.
SignalStrength(d, a, beam) ==
    LET num == IF beam <= 0 \/ beam > 1800 THEN 1800 ELSE beam
        ang == IF a <= 90 THEN PowMilli(CosMilli(a), num)
               ELSE (50 * BackCosMilli(a)) \div 1000
    IN Max(10000, (1000000 * ang) \div (SafeDistance(d) * SafeDistance(d)))

\* x * f for a factor f in thousandths, without leaving 32 bits
Scale(x, f) == (x \div 1000) * f + ((x % 1000) * f) \div 1000

\* random.random(): the element of the stream at position pos
RandomAt(stream, pos) == stream[pos]
NextPos(stream, pos) == (pos % Len(stream)) + 1

\* A variant of NoiseFires with the comparison turned round
NoiseFiresAbove(u, noise) == u > noise

\* Line 48: the noise draw fires
NoiseFires(u, noise) == u < noise

\* A variant of Flip that leaves the symbol as it is
FlipKeep(signal) == signal

\* Line 50: the flipped symbol
Flip(signal) == 1 - signal

\* Line 62: received_signal = signal * attenuation
ReceivedSignal(signal, att) == signal * att

\* LiFiChannel.transmit(signal) on a channel cfg with the random stream at
\* pos: the exception raised (or None), the level returned and the new
\* stream position.
ChannelTransmit(cfg, stream, pos, signal) ==
    LET ang == AngularAttenuation(cfg.angle, cfg.led_beam_width)
    IN IF ang.raised # None
       THEN [raised |-> ang.raised, level |-> 0, pos |-> pos]
       ELSE
       LET att0 == Attenuation(cfg.distance, ang.value)
           \* noise
           u1 == RandomAt(stream, pos)
           p1 == NextPos(stream, pos)
           sig == IF NoiseFires(u1, cfg.noise_level) THEN Flip(signal)
                  ELSE signal
           \* interference
           u2 == RandomAt(stream, p1)
           p2 == NextPos(stream, p1)
           hit == u2 < cfg.interference
           u3 == RandomAt(stream, p2)
           p3 == IF hit THEN NextPos(stream, p2) ELSE p2
           \* random.uniform(0.5, 0.9) = 0.5 + 0.4 * random()
           att1 == IF hit THEN Scale(att0, 500 + (400 * u3) \div 1000)
                   ELSE att0
           \* natural disturbance
           nd == cfg.natural_disturbance
           u4 == RandomAt(stream, p3)
           p4 == IF nd > 0 THEN NextPos(stream, p3) ELSE p3
           \* 1 + random.uniform(-nd, nd) = 1 - nd + 2 * nd * random()
           att2 == IF nd > 0
                   THEN Scale(att1, 1000 - nd + (2 * nd * u4) \div 1000)
                   ELSE att1
       IN [raised |-> None, level |-> ReceivedSignal(sig, att2), pos |-> p4]

----------------------------------------------------------------------------
(* LiFiTransmitter *)

\* The channel object the transmitter and the receiver share
Channel ==
    [distance |-> distance, angle |-> angle, noise_level |-> noise_level,
     interference |-> interference,
     natural_disturbance |-> natural_disturbance,
     led_beam_width |-> led_beam_width]

\* The part of the state a transmitter call works on
TxState ==
    [hist |-> transmission_history, pos |-> rng_pos,
     bits |-> transmitted_bits, times |-> transmit_times,
     clock |-> clock, led |-> led_state, raised |-> None]

\* One symbol of transmit_byte (lines 90-94, 99-103, 106-110): set the LED,
\* record the time and the symbol, call channel.transmit, sleep.  An
\* exception of channel.transmit leaves the records already appended and
\* ends the call.
TxSymbol(cfg, stream, st, sym) ==
    IF st.raised # None THEN st
    ELSE LET r == ChannelTransmit(cfg, stream, st.pos, sym)
             rec == [st EXCEPT !.led = (sym = 1),
                               !.times = Append(st.times, st.clock),
                               !.bits = Append(st.bits, sym)]
         IN IF r.raised # None
            THEN [rec EXCEPT !.raised = r.raised]
            ELSE [rec EXCEPT !.hist = Append(st.hist, r.level),
                             !.pos = r.pos,
                             !.clock = st.clock + sampling_time]

\* A variant of FrameSymbols that sends the most significant bit first
FrameSymbolsMsbFirst(data_byte) ==
    <<0>> \o [i \in 1..8 |-> BitAt(data_byte, 8 - i)] \o <<1>>

\* The symbols of one frame: start bit 0, (data_byte >> i) & 1 for
\* i = 0..7, stop bit 1
FrameSymbols(data_byte) ==
    <<0>> \o [i \in 1..8 |-> BitAt(data_byte, i - 1)] \o <<1>>

RECURSIVE TxSymbols(_, _, _, _)
TxSymbols(cfg, stream, st, syms) ==
    IF syms = << >> THEN st
    ELSE TxSymbols(cfg, stream, TxSymbol(cfg, stream, st, Head(syms)),
                   Tail(syms))

\* LiFiTransmitter.transmit_byte
TxByte(cfg, stream, st, data_byte) ==
    TxSymbols(cfg, stream, st, FrameSymbols(data_byte))

\* A variant of FullText that leaves the end marker out
FullTextNoEnd(text) == Handshake \o text

\* Line 119: full_text = "<~!" + text + "#"
FullText(text) == Handshake \o text \o <<EndMarker>>

\* Lines 126-129: transmit_byte(ord(char)) and the delay between characters
RECURSIVE TxChars(_, _, _, _)
TxChars(cfg, stream, st, chars) ==
    IF chars = << >> \/ st.raised # None THEN st
    ELSE LET s1 == TxByte(cfg, stream, st, Head(chars))
             s2 == IF s1.raised # None THEN s1
                   ELSE [s1 EXCEPT !.clock = s1.clock + CharDelay]
         IN TxChars(cfg, stream, s2, Tail(chars))

----------------------------------------------------------------------------
(* LiFiReceiver *)

\* A variant of GetLdrOp that reads the oldest level of the log ([0] for
\* [-1])
GetLdrOpFirst(hist, thr) ==
    IF hist # << >>
    THEN [ret |-> hist[1] < thr, reg |-> <<hist[1]>>]
    ELSE [ret |-> TRUE, reg |-> << >>]

\* LiFiReceiver.get_ldr: the value returned and what is appended to
\* register_values (nothing when the log is empty)
GetLdrOp(hist, thr) ==
    IF hist # << >>
    THEN [ret |-> hist[Len(hist)] < thr, reg |-> <<hist[Len(hist)]>>]
    ELSE [ret |-> TRUE, reg |-> << >>]

BoolToInt(b) == IF b THEN 1 ELSE 0

RECURSIVE OrBits(_, _)
\* data_byte |= int(bit_val) << i, over the samples i = 0..7
OrBits(samples, i) ==
    IF i > Len(samples) THEN 0
    ELSE BoolToInt(samples[i]) * Pow2(i - 1) + OrBits(samples, i + 1)

RECURSIVE Concat(_, _)
Concat(seqs, i) ==
    IF i > Len(seqs) THEN << >> ELSE seqs[i] \o Concat(seqs, i + 1)

\* A variant of GetByteOp whose loop takes 7 samples (range(7))
GetByteOpSeven(hist, thr) ==
    LET reads == [i \in 1..7 |-> GetLdrOp(hist, thr)]
    IN [char |-> OrBits([i \in 1..7 |-> reads[i].ret], 1),
        regs |-> Concat([i \in 1..7 |-> reads[i].reg], 1),
        bits |-> [i \in 1..7 |-> BoolToInt(reads[i].ret)],
        count |-> 7]

\* A variant of GetByteOp whose samples walk over the last 8 levels of the
\* log, the oldest first, where the log has that many
GetByteOpWalk(hist, thr) ==
    LET reads == [i \in 1..8 |->
                     IF Len(hist) >= 8
                     THEN GetLdrOp(SubSeq(hist, 1, Len(hist) - 8 + i), thr)
                     ELSE GetLdrOp(hist, thr)]
    IN [char |-> OrBits([i \in 1..8 |-> reads[i].ret], 1),
        regs |-> Concat([i \in 1..8 |-> reads[i].reg], 1),
        bits |-> [i \in 1..8 |-> BoolToInt(reads[i].ret)],
        count |-> 8]

\* LiFiReceiver.get_byte: 8 calls of get_ldr; the character returned, the
\* register values and the bits recorded, the number of bits counted
GetByteOp(hist, thr) ==
    LET reads == [i \in 1..8 |-> GetLdrOp(hist, thr)]
    IN [char |-> OrBits([i \in 1..8 |-> reads[i].ret], 1),
        regs |-> Concat([i \in 1..8 |-> reads[i].reg], 1),
        bits |-> [i \in 1..8 |-> BoolToInt(reads[i].ret)],
        count |-> 8]

RECURSIVE DiffBitsSeven(_, _, _)
\* A variant of DiffBits whose loop stops one bit early (range(7))
DiffBitsSeven(rx_byte, tx_byte, bit_pos) ==
    IF bit_pos > 6 THEN 0
    ELSE (IF BitAt(rx_byte, bit_pos) # BitAt(tx_byte, bit_pos) THEN 1 ELSE 0)
         + DiffBitsSeven(rx_byte, tx_byte, bit_pos + 1)

\* Lines 260-265: the differing bits of two character codes, bits 0..7
RECURSIVE DiffBits(_, _, _)
DiffBits(rx_byte, tx_byte, bit_pos) ==
    IF bit_pos > 7 THEN 0
    ELSE (IF BitAt(rx_byte, bit_pos) # BitAt(tx_byte, bit_pos) THEN 1 ELSE 0)
         + DiffBits(rx_byte, tx_byte, bit_pos + 1)

\* Lines 254-265: the loop over the common prefix
RECURSIVE PrefixErrors(_, _, _, _)
PrefixErrors(rx, tx, i, min_len) ==
    IF i > min_len THEN 0
    ELSE (IF rx[i] # tx[i] THEN DiffBits(rx[i], tx[i], 0) ELSE 0)
         + PrefixErrors(rx, tx, i + 1, min_len)

\* A variant of RxResult whose message_success compares only the common
\* prefix of the two strings
RxResultPrefixOnly(data, expected, errs0, bits, regs) ==
    LET min_len == Min(Len(data), Len(expected))
        char_diff == Abs(Len(data) - Len(expected))
        errs == errs0 + PrefixErrors(data, expected, 1, min_len)
                + char_diff * 8
    IN [received_message |-> data,
        message_success |->
            (SubSeq(data, 1, min_len) = SubSeq(expected, 1, min_len)),
        char_accuracy |-> IF Len(expected) > 0
                          THEN <<min_len, Max(Len(expected), 1)>>
                          ELSE <<0, 1>>,
        bit_errors |-> errs,
        total_bits |-> bits,
        ber |-> <<errs, Max(bits, 1)>>,
        register_values |-> regs]

\* A variant of RxResult whose ber divides by total_bits itself
RxResultNoFloor(data, expected, errs0, bits, regs) ==
    LET min_len == Min(Len(data), Len(expected))
        char_diff == Abs(Len(data) - Len(expected))
        errs == errs0 + PrefixErrors(data, expected, 1, min_len)
                + char_diff * 8
    IN [received_message |-> data,
        message_success |-> (data = expected),
        char_accuracy |-> IF Len(expected) > 0
                          THEN <<min_len, Max(Len(expected), 1)>>
                          ELSE <<0, 1>>,
        bit_errors |-> errs,
        total_bits |-> bits,
        ber |-> <<errs, bits>>,
        register_values |-> regs]

\* A variant of RxResult whose char_accuracy counts the characters of the
\* compared prefix that match
RxResultMatching(data, expected, errs0, bits, regs) ==
    LET min_len == Min(Len(data), Len(expected))
        char_diff == Abs(Len(data) - Len(expected))
        errs == errs0 + PrefixErrors(data, expected, 1, min_len)
                + char_diff * 8
        matching == Cardinality({i \in 1..min_len : data[i] = expected[i]})
    IN [received_message |-> data,
        message_success |-> (data = expected),
        char_accuracy |-> IF Len(expected) > 0
                          THEN <<matching, Max(Len(expected), 1)>>
                          ELSE <<0, 1>>,
        bit_errors |-> errs,
        total_bits |-> bits,
        ber |-> <<errs, Max(bits, 1)>>,
        register_values |-> regs]

\* Lines 252-284: the error accounting and the result returned.  A ratio is
\* the pair <<numerator, denominator>>.
RxResult(data, expected, errs0, bits, regs) ==
    LET min_len == Min(Len(data), Len(expected))
        char_diff == Abs(Len(data) - Len(expected))
        errs == errs0 + PrefixErrors(data, expected, 1, min_len)
                + char_diff * 8
    IN [received_message |-> data,
        message_success |-> (data = expected),
        char_accuracy |-> IF Len(expected) > 0
                          THEN <<min_len, Max(Len(expected), 1)>>
                          ELSE <<0, 1>>,
        bit_errors |-> errs,
        total_bits |-> bits,
        ber |-> <<errs, Max(bits, 1)>>,
        register_values |-> regs]

\* A variant of RxFresh that leaves out the reset of total_bits (line 202)
RxFreshKeepBits ==
    [received_data |-> << >>, handshake_received |-> FALSE,
     total_bits |-> total_bits, received_bits |-> << >>,
     register_values |-> << >>,
     buffer |-> << >>, attempt_counter |-> 0, broke |-> FALSE]

\* The state of receive_transmission at the top of its loop: the fields the
\* call resets (lines 199-206) and its locals (lines 206, 212); broke says
\* that the loop was left by break
RxFresh ==
    [received_data |-> << >>, handshake_received |-> FALSE,
     total_bits |-> 0, received_bits |-> << >>, register_values |-> << >>,
     buffer |-> << >>, attempt_counter |-> 0, broke |-> FALSE]

\* A variant of RxOnChar that keeps the scratch buffer when the handshake
\* is detected
RxOnCharKeepBuffer(st, received_char) ==
    LET is_handshake == EndsWith(Append(st.buffer, received_char), Handshake)
        is_end == st.handshake_received /\ received_char = EndMarker
    IN IF ~st.handshake_received
       THEN [st EXCEPT
                 !.buffer = Append(st.buffer, received_char),
                 !.handshake_received = is_handshake,
                 !.attempt_counter = st.attempt_counter + 1]
       ELSE IF is_end
            THEN [st EXCEPT !.broke = TRUE]
            ELSE [st EXCEPT
                      !.received_data =
                          Append(st.received_data, received_char),
                      !.attempt_counter = st.attempt_counter + 1]

\* A variant of RxOnChar that appends the end marker to the payload before
\* it leaves the loop
RxOnCharKeepMarker(st, received_char) ==
    LET is_handshake == EndsWith(Append(st.buffer, received_char), Handshake)
        is_end == st.handshake_received /\ received_char = EndMarker
    IN IF ~st.handshake_received
       THEN [st EXCEPT
                 !.buffer = IF is_handshake THEN << >>
                            ELSE Append(st.buffer, received_char),
                 !.handshake_received = is_handshake,
                 !.attempt_counter = st.attempt_counter + 1]
       ELSE IF is_end
            THEN [st EXCEPT !.broke = TRUE,
                            !.received_data =
                                Append(st.received_data, received_char)]
            ELSE [st EXCEPT
                      !.received_data =
                          Append(st.received_data, received_char),
                      !.attempt_counter = st.attempt_counter + 1]

\* Lines 224-246: what a turn of the loop does with the character that
\* get_byte returned
RxOnChar(st, received_char) ==
    LET is_handshake == EndsWith(Append(st.buffer, received_char), Handshake)
        is_end == st.handshake_received /\ received_char = EndMarker
    IN IF ~st.handshake_received
       THEN [st EXCEPT
                 !.buffer = IF is_handshake THEN << >>
                            ELSE Append(st.buffer, received_char),
                 !.handshake_received = is_handshake,
                 !.attempt_counter = st.attempt_counter + 1]
       ELSE IF is_end
            \* break leaves the loop before the counter is incremented
            THEN [st EXCEPT !.broke = TRUE]
            ELSE [st EXCEPT
                      !.received_data =
                          Append(st.received_data, received_char),
                      !.attempt_counter = st.attempt_counter + 1]

\* One iteration of the while loop (lines 216-246).  previous_state is set
\* to True at the top of every iteration, so the edge test of line 220 sees
\* that value.
RxCycleOp(st, hist, thr) ==
    LET previous_state == TRUE
        cur == GetLdrOp(hist, thr)
        current_state == cur.ret
        edge == ~current_state /\ previous_state
        gb == GetByteOp(hist, thr)
        received_char == gb.char
    IN IF ~edge
       THEN [st EXCEPT !.register_values = st.register_values \o cur.reg,
                       !.attempt_counter = st.attempt_counter + 1]
       ELSE
       \* the samples get_byte recorded, and what lines 224-246 do with
       \* the character
       [RxOnChar(st, received_char) EXCEPT
            !.register_values = st.register_values \o (cur.reg \o gb.regs),
            !.received_bits = st.received_bits \o gb.bits,
            !.total_bits = st.total_bits + gb.count]

\* Line 215: the loop goes on
RxRunning(st) == ~st.broke /\ st.attempt_counter < max_attempts

\* k turns of the loop, as many of them as the loop condition allows
RECURSIVE RxIterate(_, _, _, _)
RxIterate(st, hist, thr, k) ==
    IF k = 0 \/ ~RxRunning(st) THEN st
    ELSE IF k = 1 THEN RxCycleOp(st, hist, thr)
    ELSE LET half == RxIterate(st, hist, thr, k \div 2)
         IN RxIterate(half, hist, thr, k - (k \div 2))

\* The whole loop (lines 215-246): the counter grows in every turn that
\* does not break, so max_attempts turns exhaust it
RxLoop(hist, thr) == RxIterate(RxFresh, hist, thr, max_attempts)

\* The inputs of the calls
Symbols == {0, 1}
Bytes == {65, 321}
WideBytes == {0, 65, 170, 255, 321}
Messages == {MsgEmpty, MsgA, MsgHi}

----------------------------------------------------------------------------
(* Configurations: the arguments of LiFiChannel(...) and LiFiReceiver(...)  *)
(* and the random stream, drawn at Init.                                    *)

Cfg(d, a, n, i, nd, b, thr, stream) ==
    [distance |-> d, angle |-> a, noise_level |-> n, interference |-> i,
     natural_disturbance |-> nd, led_beam_width |-> b, threshold |-> thr,
     stream |-> stream]

\* every stream of period RngPeriod over RndValues
RngStreams == [1..RngPeriod -> RndValues]
\* a stream for the channels that never look at what they draw
QuietStream == [i \in 1..RngPeriod |-> 0]

\* the default threshold 0.5
DefaultThreshold == 500000

\* The link configurations: no impairment, on the axis, the receiver near
\* (1 cm, a logical 1 arrives at 10.0) or far (10 cm, it arrives at 0.1)
LinkConfigs ==
    {Cfg(d, 0, 0, 0, 0, 120, DefaultThreshold, QuietStream) : d \in {10, 100}}

\* ... of which the receive loop is followed step by step at 1 cm, where a
\* 1 arrives above the threshold and a 0 below it
LoopConfigs == {c \in LinkConfigs : c.distance = 10}

\* Channels inside the documented ranges (angle 0..180, beam width > 0),
\* no impairment
CleanConfigs ==
    {Cfg(d, a, 0, 0, 0, b, DefaultThreshold, QuietStream) :
        d \in {0, 10, 100}, a \in {0, 60, 120}, b \in {120}}
    \cup {Cfg(10, 60, 0, 0, 0, 180, DefaultThreshold, QuietStream)}

\* Channels with random impairments
RandomConfigs ==
    {Cfg(10, 0, imp[1], imp[2], imp[3], 120, DefaultThreshold, st) :
        imp \in {<<500, 0, 0>>, <<0, 1000, 100>>}, st \in RngStreams}

\* The distances compared with one another, in tenths of a centimetre:
\* below the floor, at the floor and above it
Distances == {-10, 0, 1, 2, 10, 100, 200}

\* Channels without impairment at each of these distances
DistanceConfigs ==
    {Cfg(d, a, 0, 0, 0, 120, DefaultThreshold, QuietStream) :
        d \in Distances, a \in {0, 60, 90, 120}}

\* Payloads the loop of receive_transmission can leave in received_data
\* (characters are chr(0..255)) ...
Decoded ==
    {MsgEmpty, MsgA, MsgHi, <<255>>, <<66, 65>>, <<0, 65>>, <<65, 66, 67>>}

\* ... and expected messages they are compared with
Expecteds ==
    {MsgEmpty, MsgA, MsgHi, MsgWide, <<66>>, <<65, 66>>, <<255, 255>>}

\* Characters get_byte can return: those of the envelope and a letter
DecodeChars == {60, 126, 33, 35, 65}

\* The arguments of run_angle_test (lines 297-300): the message and the
\* range of angles, range(0, 181, 60)
SweepMessage == MsgA
SweepArgs == [start_angle |-> 0, end_angle |-> 180, angle_step |-> 60]

\* The channel of the first sweep point: 1 cm or 100 cm, beam width 120,
\* without noise or with every symbol inverted
SweepConfigs ==
    {Cfg(d, SweepArgs.start_angle, n, 0, 0, 120, DefaultThreshold,
         QuietStream) : d \in {10, 1000}, n \in {0, 1000}}

\* Channels with every combination of the three impairments off and on:
\* noise_level 0, 0.5 and 1, interference 0 and 1, natural disturbance 0
\* and 0.1, over every random stream
ImpairConfigs ==
    {Cfg(10, 0, n, i, nd, 120, DefaultThreshold, st) :
        n \in {0, 500, 1000}, i \in {0, 1000}, nd \in {0, 100},
        st \in RngStreams}

\* The arguments of run_distance_test (lines 387-390) in tenths of a
\* centimetre: ranges that are empty, of one distance and of several, with a
\* step that is positive, zero or negative
DistanceArgs ==
    {[start_distance |-> 10, end_distance |-> e, distance_step |-> st] :
        e \in {5, 10, 30}, st \in {-10, 0, 10, 20}}

\* The other arguments of run_distance_test: angle 0, beam width 120, no
\* impairment, the default threshold
DistanceTestConfigs ==
    {Cfg(10, 0, 0, 0, 0, 120, DefaultThreshold, QuietStream)}

\* The configurations run_batch_test is given: a sweep over the angles 0 and
\* 60 at 100 cm, a sweep over the one distance 100 cm, a test type that is
\* unknown and a configuration without the key test_type (get returns
\* None).  The keys that are not listed are those of a link without
\* impairment, beam width 120, threshold 0.5 and the message "A".
BatchConfigs ==
    {[test_type |-> "angle", start |-> 0, end |-> 60, step |-> 60,
      fixed |-> 1000],
     [test_type |-> "distance", start |-> 1000, end |-> 1000, step |-> 50,
      fixed |-> 0],
     [test_type |-> "sweep", start |-> 0, end |-> 60, step |-> 60,
      fixed |-> 1000],
     [test_type |-> "None", start |-> 0, end |-> 0, step |-> 0,
      fixed |-> 0]}

\* the lists of at most n configurations, the empty list left out (main
\* does not call run_batch_test with it, line 667)
ConfigLists(n) == UNION {[1..k -> BatchConfigs] : k \in 1..n}

\* Channels with noise_level = 1.0
NoisyConfigs ==
    {Cfg(d, a, 1000, 0, 0, 120, thr, QuietStream) :
        d \in {1, 10, 100}, a \in {0, 120},
        thr \in {0, DefaultThreshold, 20000000}}

\* Channels at and beyond the edges of the documented ranges
EdgeConfigs ==
    {Cfg(d, a, 0, 0, 0, b, DefaultThreshold, QuietStream) :
        d \in {-10, 0, 1, 10}, a \in {-120, -60, 0, 60, 90, 120, 180, 200},
        b \in {0, 120, 180, 360}}

----------------------------------------------------------------------------
(* The state after construction (lines 11-19, 74-81, 143-155) *)

\* No test of the simulator is running
NoTest ==
    /\ start_distance = 0
    /\ end_distance = 0
    /\ distance_step = 0
    /\ current_distance = 0
    /\ distances = << >>
    /\ test_results = << >>
    /\ test_configs = << >>
    /\ batch_index = 0
    /\ all_results = << >>

\* The link of a channel, a transmitter and a receiver just constructed, the
\* driver being at first_op
InitLink(configs, max_calls, first_op) ==
    \E c \in configs :
        /\ distance = Max(1, c.distance)
        /\ distance_arg = c.distance
        /\ angle = c.angle
        /\ noise_level = c.noise_level
        /\ interference = c.interference
        /\ natural_disturbance = c.natural_disturbance
        /\ led_beam_width = c.led_beam_width
        /\ transmission_history = << >>
        /\ led_state = FALSE
        /\ transmit_times = << >>
        /\ transmitted_bits = << >>
        /\ tx_result = NoResult
        /\ threshold = c.threshold
        /\ received_data = << >>
        /\ handshake_received = FALSE
        /\ bit_errors = 0
        /\ total_bits = 0
        /\ received_bits = << >>
        /\ register_values = << >>
        /\ buffer = << >>
        /\ attempt_counter = 0
        /\ expected_message = << >>
        /\ rx_result = NoResult
        /\ rng_stream = c.stream
        /\ rng_pos = 1
        /\ clock = 0
        /\ pc = "idle"
        /\ raised = None
        /\ last_call = [op |-> first_op]
        /\ calls = 0
        /\ budget = max_calls

InitWith(configs, max_calls) ==
    InitLink(configs, max_calls, "init") /\ NoTest

\* a top-level call can start
Ready == pc = "idle" /\ raised = None /\ calls < budget

----------------------------------------------------------------------------
(* Calls of the channel and of the transmitter *)

\* channel.transmit(signal), called directly
Transmit(signal) ==
    /\ Ready
    /\ LET r == ChannelTransmit(Channel, rng_stream, rng_pos, signal)
       IN /\ raised' = r.raised
          /\ transmission_history' =
                IF r.raised = None
                THEN Append(transmission_history, r.level)
                ELSE transmission_history
          /\ rng_pos' = r.pos
          /\ last_call' = [op |-> "transmit", arg |-> signal,
                           ret |-> r.level]
    /\ calls' = calls + 1
    /\ UNCHANGED <<channel_vars, tx_vars, threshold, rx_fields, rx_locals,
                   rng_stream, pc, budget>>
    /\ UNCHANGED harness_vars

\* What a transmitter call leaves behind
TxCommit(st) ==
    /\ transmission_history' = st.hist
    /\ rng_pos' = st.pos
    /\ transmitted_bits' = st.bits
    /\ transmit_times' = st.times
    /\ clock' = st.clock
    /\ led_state' = st.led
    /\ raised' = st.raised

\* transmitter.transmit_byte(data_byte), called directly
TransmitByte(data_byte) ==
    /\ Ready
    /\ TxCommit(TxByte(Channel, rng_stream, TxState, data_byte))
    /\ last_call' = [op |-> "transmit_byte", arg |-> data_byte]
    /\ calls' = calls + 1
    /\ UNCHANGED <<channel_vars, tx_result, threshold, rx_fields, rx_locals,
                   rng_stream, pc, budget>>
    /\ UNCHANGED harness_vars

\* transmitter.transmit_string(text) (lines 112-137)
TransmitString(text) ==
    /\ Ready
    /\ LET st0 == [TxState EXCEPT !.times = << >>, !.bits = << >>]
           st == TxChars(Channel, rng_stream, st0, FullText(text))
       IN /\ TxCommit(st)
          /\ tx_result' =
                IF st.raised = None
                THEN [start_time |-> clock, end_time |-> st.clock,
                      transmitted_data |-> FullText(text),
                      bit_timing |-> st.times]
                ELSE tx_result
    /\ last_call' = [op |-> "transmit_string", arg |-> text]
    /\ calls' = calls + 1
    /\ UNCHANGED <<channel_vars, threshold, rx_fields, rx_locals,
                   rng_stream, pc, budget>>
    /\ UNCHANGED harness_vars

----------------------------------------------------------------------------
(* Calls of the receiver *)

\* A variant of GetLdr that takes the sample off the log (pop() for [-1])
GetLdrPop ==
    /\ Ready
    /\ LET r == GetLdrOp(transmission_history, threshold)
       IN /\ register_values' = register_values \o r.reg
          /\ last_call' = [op |-> "get_ldr", ret |-> r.ret]
    /\ transmission_history' =
          IF transmission_history = << >> THEN << >>
          ELSE SubSeq(transmission_history, 1, Len(transmission_history) - 1)
    /\ calls' = calls + 1
    /\ UNCHANGED <<channel_vars, tx_vars, threshold,
                   received_data, handshake_received, bit_errors, total_bits,
                   received_bits, rx_locals, rng_stream, rng_pos, pc, raised,
                   budget>>
    /\ UNCHANGED harness_vars

\* receiver.get_ldr(), called directly
GetLdr ==
    /\ Ready
    /\ LET r == GetLdrOp(transmission_history, threshold)
       IN /\ register_values' = register_values \o r.reg
          /\ last_call' = [op |-> "get_ldr", ret |-> r.ret]
    /\ calls' = calls + 1
    /\ UNCHANGED <<channel_vars, transmission_history, tx_vars, threshold,
                   received_data, handshake_received, bit_errors, total_bits,
                   received_bits, rx_locals, rng_stream, rng_pos, pc, raised, budget>>
    /\ UNCHANGED harness_vars

\* receiver.get_byte(), called directly
GetByte ==
    /\ Ready
    /\ LET r == GetByteOp(transmission_history, threshold)
       IN /\ register_values' = register_values \o r.regs
          /\ received_bits' = received_bits \o r.bits
          /\ total_bits' = total_bits + r.count
          /\ last_call' = [op |-> "get_byte", ret |-> r.char]
    /\ calls' = calls + 1
    /\ UNCHANGED <<channel_vars, transmission_history, tx_vars, threshold,
                   received_data, handshake_received, bit_errors,
                   rx_locals, rng_stream, rng_pos, pc, raised, budget>>
    /\ UNCHANGED harness_vars

\* The receiver's fields and the locals of receive_transmission as st has them
RxCommit(st) ==
    /\ received_data' = st.received_data
    /\ handshake_received' = st.handshake_received
    /\ total_bits' = st.total_bits
    /\ received_bits' = st.received_bits
    /\ register_values' = st.register_values
    /\ buffer' = st.buffer
    /\ attempt_counter' = st.attempt_counter

\* The same, read from the state
RxState ==
    [received_data |-> received_data,
     handshake_received |-> handshake_received,
     total_bits |-> total_bits, received_bits |-> received_bits,
     register_values |-> register_values,
     buffer |-> buffer, attempt_counter |-> attempt_counter,
     broke |-> (pc = "rx_break")]

\* receiver.receive_transmission(expected), the whole call (lines 197-284),
\* for an expected message out of Messages
ReceiveTransmission ==
    /\ Ready
    /\ \E st \in {RxLoop(transmission_history, threshold)} :
          /\ RxCommit(st)
          /\ \E expected \in Messages :
                LET res == RxResult(st.received_data, expected, 0,
                                    st.total_bits, st.register_values)
                IN /\ bit_errors' = res.bit_errors
                   /\ rx_result' = res
                   /\ expected_message' = expected
                   /\ last_call' = [op |-> "receive_transmission",
                                    arg |-> expected]
    /\ calls' = calls + 1
    /\ UNCHANGED <<channel_vars, transmission_history, tx_vars, threshold,
                   rng_stream, rng_pos, pc, raised, budget>>
    /\ UNCHANGED harness_vars

\* receiver.receive_transmission called once more, right after it returned,
\* with the expected message of the call before
ReceiveAgain ==
    /\ Ready
    /\ pc = "idle"
    /\ last_call.op = "receive_transmission"
    /\ rx_result # NoResult
    /\ \E st \in {RxLoop(transmission_history, threshold)} :
          /\ RxCommit(st)
          /\ \E res \in {RxResult(st.received_data, expected_message, 0,
                                   st.total_bits, st.register_values)} :
                /\ bit_errors' = res.bit_errors
                /\ rx_result' = res
    /\ last_call' = [op |-> "receive_transmission",
                     arg |-> expected_message, repeated |-> TRUE]
    /\ calls' = calls + 1
    /\ UNCHANGED <<channel_vars, transmission_history, tx_vars, threshold,
                   expected_message, rng_stream, rng_pos, pc, raised, budget>>
    /\ UNCHANGED harness_vars

\* The same call taken one loop iteration at a time.
\* receive_transmission(expected) up to the loop (lines 199-213)
ReceiveStart(expected) ==
    /\ Ready
    /\ RxCommit(RxFresh)
    /\ bit_errors' = 0
    /\ expected_message' = expected
    /\ rx_result' = NoResult
    /\ pc' = "rx_loop"
    /\ last_call' = [op |-> "receive_transmission", arg |-> expected]
    /\ calls' = calls + 1
    /\ UNCHANGED <<channel_vars, transmission_history, tx_vars, threshold,
                   rng_stream, rng_pos, raised, budget>>
    /\ UNCHANGED harness_vars

\* One iteration of the while loop (lines 215-246)
ReceiveCycle ==
    /\ pc = "rx_loop"
    /\ RxRunning(RxState)
    /\ \E st \in {RxCycleOp(RxState, transmission_history, threshold)} :
          /\ RxCommit(st)
          /\ pc' = IF st.broke THEN "rx_break" ELSE "rx_loop"
    /\ UNCHANGED <<channel_vars, transmission_history, tx_vars, threshold,
                   bit_errors, expected_message, rx_result, rng_stream,
                   rng_pos, raised, last_call, calls, budget>>
    /\ UNCHANGED harness_vars

\* The eight samples of which get_byte makes the character c, as it records
\* them in received_bits: sample i is bit i
CharBits(c) == [i \in 1..8 |-> BitAt(c, i - 1)]

\* A level that get_ldr reads as the sample bit: below the threshold for 1
SampleLevel(bit) == IF bit = 1 THEN threshold - 1 ELSE threshold

\* One triggering turn of the loop (lines 216-246) in which get_byte
\* returns the character c: the turn for every character get_byte can
\* return, the edge sample and the eight samples of c recorded
ReceiveChar(c) ==
    /\ pc = "rx_loop"
    /\ RxRunning(RxState)
    /\ attempt_counter < MaxDecodeChars
    /\ \E st \in {[RxOnChar(RxState, c) EXCEPT
                        !.register_values =
                            register_values \o <<SampleLevel(0)>>
                            \o [i \in 1..8 |-> SampleLevel(CharBits(c)[i])],
                        !.received_bits = received_bits \o CharBits(c),
                        !.total_bits = total_bits + 8]} :
          /\ RxCommit(st)
          /\ pc' = IF st.broke THEN "rx_break" ELSE "rx_loop"
    /\ UNCHANGED <<channel_vars, transmission_history, tx_vars, threshold,
                   bit_errors, expected_message, rx_result, rng_stream,
                   rng_pos, raised, last_call, calls, budget>>
    /\ UNCHANGED harness_vars

\* After the loop (lines 248-284): the error accounting and the return
ReceiveReturn ==
    /\ pc \in {"rx_loop", "rx_break"}
    /\ ~RxRunning(RxState)
    /\ \E res \in {RxResult(received_data, expected_message, bit_errors,
                             total_bits, register_values)} :
          /\ bit_errors' = res.bit_errors
          /\ rx_result' = res
    /\ pc' = "idle"
    /\ UNCHANGED <<channel_vars, transmission_history, tx_vars, threshold,
                   received_data, handshake_received, total_bits,
                   received_bits, register_values, buffer, attempt_counter,
                   expected_message, rng_stream, rng_pos, raised, last_call,
                   calls, budget>>
    /\ UNCHANGED harness_vars

----------------------------------------------------------------------------
(* LiFiSimulator.run_angle_test, one statement of the loop body at a time *)

\* Line 337: tx_result = transmitter.transmit_string(message), on the
\* objects just constructed
SweepTransmit ==
    /\ last_call.op \in {"init", "sweep_point"}
    /\ TransmitString(SweepMessage)

\* Line 340: rx_result = receiver.receive_transmission(message), entered
\* once transmit_string has returned
SweepReceive ==
    /\ last_call.op = "transmit_string"
    /\ ReceiveStart(SweepMessage)

\* Lines 342-383: the result of the sweep point, as it is appended to
\* test_results
SweepRecord ==
    /\ pc = "idle"
    /\ last_call.op = "receive_transmission"
    /\ rx_result # NoResult
    /\ raised = None
    /\ last_call' =
          [op |-> "sweep_result",
           result |-> [angle |-> angle, distance |-> distance_arg,
                       threshold |-> threshold,
                       signal_strength |->
                           SignalStrength(distance_arg, angle,
                                          led_beam_width),
                       received_message |-> rx_result.received_message,
                       message_success |-> rx_result.message_success,
                       char_accuracy |-> rx_result.char_accuracy,
                       bit_errors |-> rx_result.bit_errors,
                       total_bits |-> rx_result.total_bits,
                       ber |-> rx_result.ber,
                       tx_data |-> tx_result.transmitted_data,
                       register_samples |->
                           SubSeq(rx_result.register_values, 1,
                                  Min(10, Len(rx_result.register_values)))]]
    /\ test_results' = Append(test_results, last_call'.result)
    /\ UNCHANGED <<channel_vars, transmission_history, tx_vars, threshold,
                   rx_fields, rx_locals, rng_stream, rng_pos, pc, raised,
                   calls, budget, distance_vars, batch_vars>>

\* Lines 323-340 as a function of the point: the result receive_transmission
\* returns for the message that transmit_string has sent over a channel cfg
\* constructed for the point, the random stream being at pos
PointResult(cfg, stream, pos, thr, message) ==
    LET sent == TxChars(cfg, stream,
                        [hist |-> << >>, pos |-> pos, bits |-> << >>,
                         times |-> << >>, clock |-> 0, led |-> FALSE,
                         raised |-> None],
                        FullText(message))
    IN CHOOSE res \in {RxResult(st.received_data, message, 0, st.total_bits,
                                st.register_values) :
                          st \in {RxLoop(sent.hist, thr)}} : TRUE

\* A variant of SweepNextPoint that goes on with the channel and the
\* receiver of the point before
SweepNextPointKeepLink ==
    /\ pc = "idle"
    /\ raised = None
    /\ last_call.op = "sweep_result"
    /\ calls < budget
    /\ angle + SweepArgs.angle_step <= SweepArgs.end_angle
    /\ angle' = angle + SweepArgs.angle_step
    /\ led_state' = FALSE
    /\ transmit_times' = << >>
    /\ transmitted_bits' = << >>
    /\ last_call' = [op |-> "sweep_point", angle |-> angle']
    /\ UNCHANGED <<distance, noise_level, interference, natural_disturbance,
                   led_beam_width, distance_arg, tx_result, clock, threshold,
                   expected_message, rx_result, rng_stream, rng_pos, pc,
                   raised, calls, budget, transmission_history, rx_fields,
                   buffer, attempt_counter>>
    /\ UNCHANGED harness_vars

\* Lines 321-334: the next angle of the range, with a new channel, a new
\* transmitter and a new receiver
SweepNextPoint ==
    /\ pc = "idle"
    /\ raised = None
    /\ last_call.op = "sweep_result"
    /\ calls < budget
    /\ angle + SweepArgs.angle_step <= SweepArgs.end_angle
    /\ angle' = angle + SweepArgs.angle_step
    /\ transmission_history' = << >>
    /\ led_state' = FALSE
    /\ transmit_times' = << >>
    /\ transmitted_bits' = << >>
    /\ RxCommit(RxFresh)
    /\ bit_errors' = 0
    /\ last_call' = [op |-> "sweep_point", angle |-> angle']
    /\ UNCHANGED <<distance, noise_level, interference, natural_disturbance,
                   led_beam_width, distance_arg, tx_result, clock, threshold,
                   expected_message, rx_result, rng_stream, rng_pos, pc,
                   raised, calls, budget>>
    /\ UNCHANGED harness_vars

----------------------------------------------------------------------------
(* LiFiSimulator.run_distance_test *)

\* Lines 405-407: one turn of the loop that builds the list of distances
DistanceListStep ==
    /\ pc = "idle"
    /\ last_call.op \in {"run_distance_test", "distance_list"}
    /\ current_distance <= end_distance
    /\ Len(distances) < MaxDistances
    /\ distances' = Append(distances, current_distance)
    /\ current_distance' = current_distance + distance_step
    /\ last_call' = [op |-> "distance_list"]
    /\ UNCHANGED <<channel_vars, transmission_history, tx_vars, threshold,
                   rx_fields, rx_locals, rng_stream, rng_pos, pc, raised,
                   calls, budget, start_distance, end_distance,
                   distance_step, test_results, batch_vars>>

\* Line 405, the condition being false: the list is built
DistanceListDone ==
    /\ pc = "idle"
    /\ last_call.op \in {"run_distance_test", "distance_list"}
    /\ ~(current_distance <= end_distance)
    /\ last_call' = [op |-> "distances_built"]
    /\ UNCHANGED <<channel_vars, transmission_history, tx_vars, threshold,
                   rx_fields, rx_locals, rng_stream, rng_pos, pc, raised,
                   calls, budget, harness_vars>>

\* Lines 417-430: the next distance of the list, with a new channel, a new
\* transmitter and a new receiver
DistanceNextPoint ==
    /\ pc = "idle"
    /\ raised = None
    /\ last_call.op \in {"distances_built", "sweep_result"}
    /\ calls < budget
    /\ Len(test_results) < Len(distances)
    /\ LET d == distances[Len(test_results) + 1]
       IN /\ distance' = Max(1, d)
          /\ distance_arg' = d
          /\ last_call' = [op |-> "sweep_point", distance |-> d]
    /\ transmission_history' = << >>
    /\ led_state' = FALSE
    /\ transmit_times' = << >>
    /\ transmitted_bits' = << >>
    /\ RxCommit(RxFresh)
    /\ bit_errors' = 0
    /\ UNCHANGED <<angle, noise_level, interference, natural_disturbance,
                   led_beam_width, tx_result, clock, threshold,
                   expected_message, rx_result, rng_stream, rng_pos, pc,
                   raised, calls, budget, harness_vars>>

----------------------------------------------------------------------------
(* LiFiSimulator.run_batch_test *)

\* range(start, end + 1, step) (line 312) and the list of lines 404-407, for
\* a step above 0
RECURSIVE RangeUpTo(_, _, _)
RangeUpTo(start, end, step) ==
    IF start <= end THEN <<start>> \o RangeUpTo(start + step, end, step)
    ELSE << >>

\* The row of one point (lines 323-379, 419-475), on a link without
\* impairment
PointRow(d, a) ==
    LET cfg == [distance |-> Max(1, d), angle |-> a, noise_level |-> 0,
                interference |-> 0, natural_disturbance |-> 0,
                led_beam_width |-> 120]
    IN CHOOSE row \in
          {[angle |-> a, distance |-> d, threshold |-> DefaultThreshold,
            signal_strength |-> SignalStrength(d, a, 120),
            received_message |-> rx.received_message,
            message_success |-> rx.message_success,
            char_accuracy |-> rx.char_accuracy,
            bit_errors |-> rx.bit_errors,
            total_bits |-> rx.total_bits,
            ber |-> rx.ber,
            tx_data |-> FullText(SweepMessage),
            register_samples |->
                SubSeq(rx.register_values, 1,
                       Min(10, Len(rx.register_values)))] :
             rx \in {PointResult(cfg, QuietStream, 1, DefaultThreshold,
                                 SweepMessage)}} : TRUE

\* The rows run_angle_test (lines 321-385) and run_distance_test (lines
\* 404-481) return for a configuration
TestRows(config) ==
    LET points == RangeUpTo(config.start, config.end, config.step)
    IN IF config.test_type = "angle"
       THEN [k \in 1..Len(points) |-> PointRow(config.fixed, points[k])]
       ELSE [k \in 1..Len(points) |-> PointRow(points[k], config.fixed)]

\* Lines 525-527: the rows with the batch id and the configuration
Tagged(results, id, config) ==
    [k \in 1..Len(results) |->
        [batch_id |-> id, batch_config |-> config] @@ results[k]]

\* A variant of BatchStep that leaves the loop at a test type it does not
\* know (break for continue)
BatchStepBreak ==
    /\ pc = "idle"
    /\ raised = None
    /\ batch_index < Len(test_configs)
    /\ LET i == batch_index
           config == test_configs[i + 1]
       IN IF config.test_type \in {"angle", "distance"}
          THEN /\ \E results \in {TestRows(config)} :
                     all_results' =
                         all_results \o Tagged(results, i + 1, config)
               /\ batch_index' = i + 1
          ELSE /\ all_results' = all_results
               /\ batch_index' = Len(test_configs)
    /\ last_call' = [op |-> "run_batch_test"]
    /\ UNCHANGED <<channel_vars, transmission_history, tx_vars, threshold,
                   rx_fields, rx_locals, rng_stream, rng_pos, pc, raised,
                   calls, budget, distance_vars, test_results, test_configs>>

\* Lines 489-529: one turn of the loop over the configurations
BatchStep ==
    /\ pc = "idle"
    /\ raised = None
    /\ batch_index < Len(test_configs)
    /\ LET i == batch_index
           config == test_configs[i + 1]
       IN IF config.test_type \in {"angle", "distance"}
          THEN /\ \E results \in {TestRows(config)} :
                     all_results' =
                         all_results \o Tagged(results, i + 1, config)
               /\ batch_index' = i + 1
          ELSE /\ all_results' = all_results
               /\ batch_index' = i + 1
    /\ last_call' = [op |-> "run_batch_test"]
    /\ UNCHANGED <<channel_vars, transmission_history, tx_vars, threshold,
                   rx_fields, rx_locals, rng_stream, rng_pos, pc, raised,
                   calls, budget, distance_vars, test_results, test_configs>>

----------------------------------------------------------------------------
(* Specifications *)

\* The link: a transmitter and a receiver on one channel
Init == InitWith(LinkConfigs, MaxCalls)

Next ==
    \/ \E s \in Symbols : Transmit(s)
    \/ \E b \in Bytes : TransmitByte(b)
    \/ \E m \in Messages : TransmitString(m)
    \/ GetLdr
    \/ GetByte
    \/ ReceiveTransmission

Spec == Init /\ [][Next]_vars

\* The link with receive_transmission taken one loop iteration at a time
InitLoop == InitWith(LoopConfigs, MaxLoopCalls)

NextLoop ==
    \/ \E s \in Symbols : Transmit(s)
    \/ \E e \in {MsgA} : ReceiveStart(e)
    \/ ReceiveCycle
    \/ ReceiveReturn

SpecLoop == InitLoop /\ [][NextLoop]_vars

\* ... under the scheduling of a single-threaded program: a call that has
\* started keeps running
SpecLoopFair ==
    SpecLoop /\ WF_vars(ReceiveCycle) /\ WF_vars(ReceiveReturn)

\* The channel and the transmitter over the documented configurations
InitChannel == InitWith(CleanConfigs \cup RandomConfigs, MaxChannelCalls)

NextChannel ==
    \/ \E s \in Symbols : Transmit(s)
    \/ \E b \in WideBytes : TransmitByte(b)
    \/ \E m \in {MsgEmpty, MsgA, MsgWide} : TransmitString(m)

SpecChannel == InitChannel /\ [][NextChannel]_vars

\* The channel at the edges of its configuration
InitEdge == InitWith(EdgeConfigs, MaxChannelCalls)

NextEdge ==
    \/ \E s \in Symbols : Transmit(s)
    \/ \E b \in Bytes : TransmitByte(b)
    \/ \E m \in Messages : TransmitString(m)

SpecEdge == InitEdge /\ [][NextEdge]_vars

\* The link over a channel that inverts every symbol
InitNoisy == InitWith(NoisyConfigs, MaxCalls)

NextNoisy ==
    \/ \E s \in Symbols : Transmit(s)
    \/ \E m \in Messages : TransmitString(m)
    \/ ReceiveTransmission

SpecNoisy == InitNoisy /\ [][NextNoisy]_vars

\* The channel at different distances
InitDistance == InitWith(DistanceConfigs, MaxChannelCalls)

NextDistance ==
    \/ \E s \in Symbols : Transmit(s)
    \/ \E b \in Bytes : TransmitByte(b)

SpecDistance == InitDistance /\ [][NextDistance]_vars

\* The accounting of receive_transmission (lines 248-284) over the payloads
\* of Decoded: the receiver stands at the exit of the loop, either after the
\* end marker that followed the handshake and the payload (8 bits sampled
\* for each character of the envelope), or with its attempts used up and
\* nothing sampled.  The trace and the bits, which the accounting does not
\* read, are left empty.
InitAccount ==
    /\ \E c \in LoopConfigs :
          /\ distance = Max(1, c.distance)
          /\ distance_arg = c.distance
          /\ angle = c.angle
          /\ noise_level = c.noise_level
          /\ interference = c.interference
          /\ natural_disturbance = c.natural_disturbance
          /\ led_beam_width = c.led_beam_width
          /\ threshold = c.threshold
          /\ rng_stream = c.stream
    /\ transmission_history = << >>
    /\ led_state = FALSE
    /\ transmit_times = << >>
    /\ transmitted_bits = << >>
    /\ tx_result = NoResult
    /\ bit_errors = 0
    /\ received_bits = << >>
    /\ register_values = << >>
    /\ buffer = << >>
    /\ rx_result = NoResult
    /\ rng_pos = 1
    /\ clock = 0
    /\ raised = None
    /\ calls = 1
    /\ budget = 1
    /\ \E e \in Expecteds :
          /\ expected_message = e
          /\ last_call = [op |-> "receive_transmission", arg |-> e]
    /\ \/ \E data \in Decoded :
             /\ received_data = data
             /\ handshake_received = TRUE
             /\ total_bits = 8 * (Len(data) + 4)
             /\ attempt_counter = Len(data) + 3
             /\ pc = "rx_break"
       \/ /\ received_data = << >>
          /\ handshake_received = FALSE
          /\ total_bits = 0
          /\ attempt_counter = max_attempts
          /\ pc = "rx_loop"
    /\ NoTest

NextAccount == ReceiveReturn

SpecAccount == InitAccount /\ [][NextAccount]_vars

\* One call of receive_transmission, over the characters its triggering
\* cycles can decode
InitDecode == InitWith(LoopConfigs, 1)

NextDecode ==
    \/ \E e \in {MsgA} : ReceiveStart(e)
    \/ \E c \in DecodeChars : ReceiveChar(c)
    \/ ReceiveReturn

SpecDecode == InitDecode /\ [][NextDecode]_vars

\* One receiver decoding the same log more than once
InitRepeat == InitWith(LinkConfigs, MaxRepeatCalls)

NextRepeat ==
    \/ \E s \in Symbols : Transmit(s)
    \/ ReceiveTransmission
    \/ ReceiveAgain

SpecRepeat == InitRepeat /\ [][NextRepeat]_vars

\* The angle sweep: at each point a fresh link, transmit_string and then
\* receive_transmission, the latter one loop iteration at a time
InitSweep == InitWith(SweepConfigs, 2 * MaxSweepPoints)

NextSweep ==
    \/ SweepTransmit
    \/ SweepReceive
    \/ ReceiveCycle
    \/ ReceiveReturn
    \/ SweepRecord
    \/ SweepNextPoint

SpecSweep == InitSweep /\ [][NextSweep]_vars

\* The channel alone, under its impairments
InitImpair == InitWith(ImpairConfigs, MaxChannelCalls)

NextImpair == \E s \in Symbols : Transmit(s)

SpecImpair == InitImpair /\ [][NextImpair]_vars

\* run_distance_test from its entry: the list of distances, then at each
\* distance a fresh link, transmit_string and receive_transmission
InitDistanceTest ==
    /\ InitLink(DistanceTestConfigs, 2 * MaxDistances, "run_distance_test")
    /\ \E a \in DistanceArgs :
          /\ start_distance = a.start_distance
          /\ end_distance = a.end_distance
          /\ distance_step = a.distance_step
          /\ current_distance = a.start_distance
    /\ distances = << >>
    /\ test_results = << >>
    /\ test_configs = << >>
    /\ batch_index = 0
    /\ all_results = << >>

NextDistanceTest ==
    \/ DistanceListStep
    \/ DistanceListDone
    \/ DistanceNextPoint
    \/ SweepTransmit
    \/ SweepReceive
    \/ ReceiveCycle
    \/ ReceiveReturn
    \/ SweepRecord

SpecDistanceTest == InitDistanceTest /\ [][NextDistanceTest]_vars

\* The two sweeps of the simulator: run_angle_test at 100 cm, where no byte
\* is sampled, and run_distance_test at 1 cm to 3 cm, where one is sampled in
\* every cycle; run_angle_test builds no list of distances
InitTests ==
    \/ InitWith({c \in SweepConfigs : c.distance = 1000}, 2 * MaxSweepPoints)
    \/ InitDistanceTest

NextTests ==
    \/ NextDistanceTest
    \/ (distances = << >> /\ last_call.op = "sweep_result"
           /\ SweepNextPoint)

SpecTests == InitTests /\ [][NextTests]_vars

\* run_batch_test from its entry, one configuration at a time
InitBatch ==
    /\ InitLink(DistanceTestConfigs, 0, "run_batch_test")
    /\ start_distance = 0
    /\ end_distance = 0
    /\ distance_step = 0
    /\ current_distance = 0
    /\ distances = << >>
    /\ test_results = << >>
    /\ test_configs \in ConfigLists(MaxConfigs)
    /\ batch_index = 0
    /\ all_results = << >>

NextBatch == BatchStep

SpecBatch == InitBatch /\ [][NextBatch]_vars

----------------------------------------------------------------------------
(* Properties *)

\* receive_transmission has returned and nothing was called since
ReturnedFromReceive ==
    /\ pc = "idle"
    /\ last_call.op = "receive_transmission"
    /\ rx_result # NoResult

\* On a fresh channel, transmit_string(m) ran to completion and then
\* receive_transmission(m) returned
RoundTripDone ==
    /\ ReturnedFromReceive
    /\ calls = 2
    /\ tx_result # NoResult
    /\ tx_result.transmitted_data = <<60, 126, 33>> \o expected_message \o <<35>>

NoImpairment ==
    noise_level = 0 /\ interference = 0 /\ natural_disturbance = 0

\* The level a channel without impairment delivers for a logical 1
ClearLevel == Attenuation(distance, AngularAttenuation(angle, led_beam_width).value)

\* C1: after transmit_string(m) and receive_transmission(m) on a fresh
\* channel at angle 0 with no impairment and threshold 0.5, the result has
\* message_success = true, received_message = m and ber = 0.
C1_RoundTrip ==
    (RoundTripDone /\ angle = 0 /\ NoImpairment /\ threshold = DefaultThreshold)
    => /\ rx_result.message_success
       /\ rx_result.received_message = expected_message
       /\ rx_result.ber[1] = 0

\* C2: at distance 10 cm, angle 0, beam width 120, no impairment, threshold
\* 0.5, transmit_string("A") then receive_transmission("A") returns
\* message_success = true, ber = 0 and total_bits = 40.
C2_ScenarioA ==
    (/\ RoundTripDone
     /\ distance_arg = 100 /\ angle = 0 /\ led_beam_width = 120
     /\ NoImpairment /\ threshold = DefaultThreshold
     /\ expected_message = <<65>>)
    => /\ rx_result.message_success
       /\ rx_result.ber[1] = 0
       /\ rx_result.total_bits = 40

\* C3: with noise_level = 1.0 every symbol is logged inverted (a 1 arrives
\* as level 0, a 0 arrives as the level of a 1), the handshake is never
\* detected and receive_transmission returns an empty message.
C3_NoiseInverts ==
    noise_level = 1000 =>
        /\ last_call.op = "transmit" =>
              /\ last_call.ret = (1 - last_call.arg) * ClearLevel
              /\ transmission_history[Len(transmission_history)] = last_call.ret
        /\ last_call.op = "transmit_string" =>
              LET n == Len(transmission_history)
                  k == Len(transmitted_bits)
              IN /\ k > 0 /\ n >= k
                 /\ \A i \in 1..k :
                       transmission_history[n - k + i] =
                           (1 - transmitted_bits[i]) * ClearLevel
        /\ handshake_received = FALSE
        /\ received_data = << >>
        /\ ReturnedFromReceive => rx_result.received_message = << >>

\* C3 happens: a message was sent over the inverting channel and a receive
\* that sampled bytes has returned
C3_Witness ==
    /\ noise_level = 1000
    /\ ReturnedFromReceive
    /\ tx_result # NoResult
    /\ total_bits > 0
    /\ ClearLevel > 0

\* C4: receive_transmission never raises and always returns a result: the
\* loop ends after the end marker was decoded following the handshake, or
\* after exactly 1000 attempt cycles.
C4_Terminates ==
    /\ [](pc \in {"rx_loop", "rx_break"} =>
            raised = None /\ attempt_counter <= 1000)
    /\ [](ReturnedFromReceive =>
            \/ attempt_counter = 1000
            \/ attempt_counter < 1000 /\ handshake_received)
    /\ (pc = "rx_loop") ~> ReturnedFromReceive

\* C4 happens: a receive over a non-empty log used up its attempts and
\* returned
C4_Witness ==
    /\ ReturnedFromReceive
    /\ attempt_counter = 1000
    /\ transmission_history # << >>

\* receive_transmission returned because the attempt limit was reached
ExhaustedReturn == ReturnedFromReceive /\ attempt_counter = max_attempts

\* C5 as stated: a return by budget exhaustion carries the payload
\* accumulated so far and has message_success = false, whatever the expected
\* message.
C5_ExhaustionFlagged ==
    ExhaustedReturn =>
        /\ rx_result.received_message = received_data
        /\ rx_result.message_success = FALSE

\* C5 amended: a return by budget exhaustion carries the payload accumulated
\* so far; message_success is false for every non-empty expected message,
\* and for the empty expected message it is true exactly when no payload
\* was accumulated.
C5_ExhaustionAmended ==
    ExhaustedReturn =>
        /\ rx_result.received_message = received_data
        /\ expected_message # << >> => rx_result.message_success = FALSE
        /\ expected_message = << >> =>
              (rx_result.message_success <=> received_data = << >>)

\* C5 happens: the budget ran out on a receive that sampled bytes and was
\* given a non-empty expected message
C5_Witness ==
    /\ ExhaustedReturn
    /\ expected_message = <<72, 105>>
    /\ total_bits > 0

\* a direct call of channel.transmit has just ended (returned or raised)
AfterTransmit == last_call.op = "transmit"

\* the call returned a level and appended it to the log
TransmitDelivered ==
    /\ raised = None
    /\ transmission_history # << >>
    /\ transmission_history[Len(transmission_history)] = last_call.ret

\* C6: on a channel built with distance <= 0 or with led_beam_width = 0, at
\* an angle in 0..180, transmit returns a level and appends it without
\* raising, the distance having been floored to 0.1.
C6_EdgeTotal ==
    (/\ AfterTransmit
     /\ distance_arg <= 0 \/ led_beam_width = 0
     /\ angle \in 0..180)
    => TransmitDelivered /\ distance = 1

\* C7: with an angle below 0 or above 180 and a beam width > 0, transmit
\* returns a level and appends it without raising.
C7_AngleOutside ==
    (/\ AfterTransmit
     /\ angle < 0 \/ angle > 180
     /\ led_beam_width > 0)
    => TransmitDelivered

\* the step is a call of transmit_byte
ByteStep == calls' = calls + 1 /\ last_call'.op = "transmit_byte"

\* the value of eight data symbols sent least significant first
DataValue(bits, k) ==
    bits[k + 1] + 2 * bits[k + 2] + 4 * bits[k + 3] + 8 * bits[k + 4]
    + 16 * bits[k + 5] + 32 * bits[k + 6] + 64 * bits[k + 7]
    + 128 * bits[k + 8]

\* the ten symbols from position k + 1 on are the frame of character code c
IsFrame(bits, k, c) ==
    /\ bits[k + 1] = 0
    /\ \A i \in 2..9 : bits[k + i] \in {0, 1}
    /\ DataValue(bits, k + 1) = c % 256
    /\ bits[k + 10] = 1

\* C8: transmit_byte(b) makes exactly 10 channel transmits: start symbol 0,
\* the low eight bits of b least significant first, stop symbol 1; and
\* transmitted_bits grows by the same 10 symbols.
C8_Framing ==
    [][ByteStep =>
        LET n == Len(transmission_history)
            k == Len(transmitted_bits)
        IN /\ raised' = None
           /\ Len(transmission_history') = n + 10
           /\ Len(transmitted_bits') = k + 10
           /\ SubSeq(transmitted_bits', 1, k) = transmitted_bits
           /\ IsFrame(transmitted_bits', k, last_call'.arg)
           /\ NoImpairment =>
                 \A j \in 1..10 :
                     transmission_history'[n + j] =
                         transmitted_bits'[k + j] * ClearLevel
    ]_vars

\* C8 happens: a byte whose code exceeds 255 was framed after an earlier call
C8_Witness ==
    /\ last_call.op = "transmit_byte"
    /\ last_call.arg = 321
    /\ Len(transmitted_bits) = 20
    /\ NoImpairment

\* the step is a call of transmit_string
StringStep == calls' = calls + 1 /\ last_call'.op = "transmit_string"

\* C9: transmit_string(m) completes without error for every m, the empty
\* string included; transmitted_data is "<~!" + m + "#"; the characters of
\* the envelope are framed in order; the channel log grows by exactly
\* 10 * (len(m) + 4) levels and bit_timing has the same length.
C9_Envelope ==
    [][StringStep =>
        LET m == last_call'.arg
            envelope == <<60, 126, 33>> \o m \o <<35>>
            total == 10 * (Len(m) + 4)
            n == Len(transmission_history)
        IN /\ raised' = None
           /\ tx_result' # NoResult
           /\ tx_result'.transmitted_data = envelope
           /\ Len(transmission_history') = n + total
           /\ SubSeq(transmission_history', 1, n) = transmission_history
           /\ Len(tx_result'.bit_timing) = total
           /\ Len(transmitted_bits') = total
           /\ \A c \in 1..Len(envelope) :
                 IsFrame(transmitted_bits', 10 * (c - 1), envelope[c])
    ]_vars

\* C9 happens: the empty message was sent and put 40 levels on the log
C9_Witness ==
    /\ last_call.op = "transmit_string"
    /\ last_call.arg = << >>
    /\ tx_result # NoResult
    /\ Len(transmission_history) = 40

\* the step is a call of channel.transmit
TransmitStep == calls' = calls + 1 /\ last_call'.op = "transmit"

\* the step belongs to a receiver operation
ReceiverStep ==
    \/ calls' = calls + 1
       /\ last_call'.op \in {"get_ldr", "get_byte", "receive_transmission"}
    \/ pc \in {"rx_loop", "rx_break"}

\* C10: the channel log is empty at construction; a transmit call appends
\* exactly the value it returns and leaves the earlier elements alone; no
\* receiver operation changes the log.
C10_AppendOnly ==
    /\ transmission_history = << >>
    /\ [][/\ Len(transmission_history') >= Len(transmission_history)
          /\ SubSeq(transmission_history', 1, Len(transmission_history))
                = transmission_history
          /\ TransmitStep =>
                /\ Len(transmission_history') = Len(transmission_history) + 1
                /\ transmission_history'[Len(transmission_history')]
                      = last_call'.ret
          /\ ReceiverStep => transmission_history' = transmission_history
       ]_vars

\* C10 happens: a receive has returned over a log that transmit calls filled
C10_Witness ==
    /\ ReturnedFromReceive
    /\ Len(transmission_history) >= 1
    /\ register_values # << >>

\* the step is a second receive_transmission over the log of the first, with
\* the same expected message
RepeatStep ==
    /\ ReturnedFromReceive
    /\ calls' = calls + 1
    /\ last_call'.op = "receive_transmission"
    /\ last_call'.arg = expected_message

\* C11: a second receive_transmission over the same log with the same
\* expected message returns the bit_errors, total_bits, received_message and
\* register trace of the first; the receiver's counters and payload after it
\* are those after the first.
C11_DecodeDeterminism ==
    [][RepeatStep =>
        /\ rx_result'.bit_errors = rx_result.bit_errors
        /\ rx_result'.total_bits = rx_result.total_bits
        /\ rx_result'.received_message = rx_result.received_message
        /\ rx_result'.register_values = rx_result.register_values
        /\ rx_result'.ber = rx_result.ber
        /\ bit_errors' = bit_errors
        /\ total_bits' = total_bits
        /\ received_data' = received_data
        /\ received_bits' = received_bits
        /\ register_values' = register_values
    ]_vars

\* C11 happens: the receiver decoded a log that triggers sampling a second
\* time, with an expected message that does not match
C11_Witness ==
    /\ last_call.op = "receive_transmission"
    /\ "repeated" \in DOMAIN last_call
    /\ total_bits > 0
    /\ bit_errors > 0

\* The level that transmit(1) logs on a channel built like this one, but
\* with distance d
LevelAt(d) ==
    ChannelTransmit([Channel EXCEPT !.distance = Max(1, d)],
                    rng_stream, rng_pos, 1).level

\* transmit(1) has just returned on a channel without impairment
LoggedOne ==
    /\ AfterTransmit /\ raised = None
    /\ last_call.arg = 1
    /\ NoImpairment

\* C12 as stated: for all distances d1 < d2, those at or below the 0.1 floor
\* included, at equal angle and beam width and without impairment, the
\* level logged for symbol 1 at d2 is strictly less than the one at d1.
C12_DistanceMonotone ==
    LoggedOne =>
        \A d2 \in Distances :
            d2 > distance_arg => LevelAt(d2) < last_call.ret

\* C12 amended: for d1 < d2 the level at d2 is strictly less than the one
\* at d1 when d2 is above the 0.1 floor, and equal to it when d2 is at or
\* below the floor (both distances are then floored to 0.1).
C12_DistanceAmended ==
    LoggedOne =>
        \A d2 \in Distances :
            d2 > distance_arg =>
                IF d2 > 1 THEN LevelAt(d2) < last_call.ret
                ELSE LevelAt(d2) = last_call.ret

\* C12 happens: symbol 1 was logged on a channel built with distance 0, off
\* the axis, which has distances above it at the floor and beyond
C12_Witness ==
    /\ LoggedOne
    /\ distance_arg = 0
    /\ angle = 60
    /\ last_call.ret > 0

\* the number of set bits in the XOR of the low 8 bits of two codes
Hamming8(a, b) == Cardinality({k \in 0..7 : BitAt(a, k) # BitAt(b, k)})

RECURSIVE HammingSum(_, _, _)
\* the sum of Hamming8 over the first n characters of two strings
HammingSum(x, y, n) ==
    IF n = 0 THEN 0 ELSE Hamming8(x[n], y[n]) + HammingSum(x, y, n - 1)

\* C13: at return bit_errors is the sum, over the indices below
\* min(len(decoded), len(expected)), of the set bits in the XOR of the low 8
\* bits of the two characters, plus 8 times |len(decoded) - len(expected)|.
C13_BitErrors ==
    ReturnedFromReceive =>
        LET n == IF Len(received_data) <= Len(expected_message)
                 THEN Len(received_data) ELSE Len(expected_message)
            diff == IF Len(received_data) <= Len(expected_message)
                    THEN Len(expected_message) - Len(received_data)
                    ELSE Len(received_data) - Len(expected_message)
            errors == HammingSum(received_data, expected_message, n) + 8 * diff
        IN /\ bit_errors = errors
           /\ rx_result.bit_errors = errors

\* C13 happens: the call returned with a payload that differs from the
\* expected message of equal length in the top bit and in others
C13_Witness ==
    /\ ReturnedFromReceive
    /\ received_data = <<66, 65>>
    /\ expected_message = <<255, 255>>
    /\ bit_errors = 12

\* C14: the returned ber is bit_errors / max(total_bits, 1): the divisor is
\* total_bits when a bit was sampled and 1 when none was, so that ber equals
\* bit_errors then; the divisor is never 0 and the call does not raise.
C14_BerFloor ==
    ReturnedFromReceive =>
        /\ raised = None
        /\ rx_result.ber[1] = bit_errors
        /\ rx_result.ber[2] >= 1
        /\ total_bits > 0 => rx_result.ber[2] = total_bits
        /\ total_bits = 0 => rx_result.ber[2] = 1
        /\ rx_result.total_bits = total_bits

\* C14 happens: the call returned without a bit sampled and with errors
\* counted
C14_Witness ==
    /\ ReturnedFromReceive
    /\ total_bits = 0
    /\ bit_errors = 16
    /\ rx_result.ber = <<16, 1>>

\* C15: the returned char_accuracy is min(len(decoded), len(expected)) /
\* len(expected) for a non-empty expected message, whether or not the
\* compared characters match, and 0 for the empty expected message.
C15_CharAccuracy ==
    ReturnedFromReceive =>
        LET n == IF Len(received_data) <= Len(expected_message)
                 THEN Len(received_data) ELSE Len(expected_message)
        IN IF expected_message # << >>
           THEN rx_result.char_accuracy = <<n, Len(expected_message)>>
           ELSE rx_result.char_accuracy[1] = 0

\* C15 happens: the call returned with a payload as long as the expected
\* message and different from it in every character
C15_Witness ==
    /\ ReturnedFromReceive
    /\ received_data = <<66, 65>>
    /\ expected_message = <<65, 66>>
    /\ rx_result.char_accuracy = <<2, 2>>

\* the latest level on the log, which is the one every sample reads
LatestLevel == transmission_history[Len(transmission_history)]

\* C16: in every attempt cycle a byte is sampled exactly when the level
\* sampled in that cycle is below the threshold, whatever the cycle before
\* sampled: over one log, after k cycles, 8 * k bits were sampled when the
\* level is below the threshold and none when it is not.
C16_EdgeTrigger ==
    (/\ pc = "rx_loop"
     /\ attempt_counter >= 1
     /\ transmission_history # << >>)
    => IF LatestLevel < threshold
       THEN total_bits = 8 * attempt_counter
       ELSE total_bits = 0

\* the step is one turn of the loop of receive_transmission
CycleStep ==
    /\ pc = "rx_loop"
    /\ attempt_counter' = attempt_counter + 1 \/ pc' = "rx_break"

\* the byte that eight recorded samples make, the first being bit 0
SampledByte(bits, k) ==
    bits[k + 1] + 2 * bits[k + 2] + 4 * bits[k + 3] + 8 * bits[k + 4]
    + 16 * bits[k + 5] + 32 * bits[k + 6] + 64 * bits[k + 7]
    + 128 * bits[k + 8]

\* C17: a cycle that triggers byte sampling takes exactly 8 samples, makes
\* the byte of them with the i-th sample as bit i, and adds exactly 8 to
\* total_bits; a cycle that does not trigger leaves total_bits alone; the
\* call starts from 0, so that total_bits is 8 times the number of
\* triggering cycles and lies in 0..8000.
C17_ByteSampling ==
    /\ [](/\ total_bits \in 0..8000
          /\ total_bits % 8 = 0
          /\ Len(received_bits) = total_bits)
    /\ [][/\ (calls' = calls + 1 /\ last_call'.op = "receive_transmission")
             => total_bits' = 0
          /\ CycleStep =>
                IF received_bits' # received_bits
                THEN /\ Len(received_bits') = Len(received_bits) + 8
                     /\ total_bits' = total_bits + 8
                     /\ Len(register_values') = Len(register_values) + 9
                     /\ Len(buffer') = Len(buffer) + 1 =>
                           buffer'[Len(buffer')] =
                               SampledByte(received_bits', Len(received_bits))
                ELSE /\ total_bits' = total_bits
                     /\ Len(register_values') <= Len(register_values) + 1
       ]_vars

\* C17 happens: three cycles of a receive have each sampled a byte
C17_Witness ==
    /\ pc = "rx_loop"
    /\ attempt_counter = 3
    /\ total_bits = 24
    /\ Len(register_values) = 27
    /\ buffer = <<0, 0, 0>>

\* the receiver is inside receive_transmission
InReceive == pc \in {"rx_loop", "rx_break"}

\* the step is a turn of the loop that sampled a byte
SampledStep == CycleStep /\ Len(received_bits') = Len(received_bits) + 8

\* the character that this turn decoded, from the samples it recorded
StepChar == SampledByte(received_bits', Len(received_bits))

\* the characters decoded in this call so far end with "<~!", this turn's
\* character included
DecodedHandshake ==
    /\ Len(received_bits') >= 24
    /\ SampledByte(received_bits', Len(received_bits') - 24) = 60
    /\ SampledByte(received_bits', Len(received_bits') - 16) = 126
    /\ SampledByte(received_bits', Len(received_bits') - 8) = 33

\* C18: inside receive_transmission the payload is empty while
\* handshake_received is false, a character decoded then goes to the scratch
\* buffer only; the flag becomes true exactly in the cycle at which the
\* characters decoded so far end with "<~!", the buffer being cleared in
\* that cycle; and the flag does not return to false before the call
\* returns.
C18_HandshakeGating ==
    /\ []((InReceive /\ ~handshake_received) => received_data = << >>)
    /\ [][/\ (InReceive /\ handshake_received) => handshake_received'
          /\ (SampledStep /\ ~handshake_received) =>
                /\ handshake_received' <=> DecodedHandshake
                /\ handshake_received' => buffer' = << >>
                /\ ~handshake_received' => buffer' = Append(buffer, StepChar)
                /\ received_data' = << >>
                /\ pc' = "rx_loop"
       ]_vars

\* C18 happens: the handshake was detected in the fourth decoded character,
\* one character having gone to the scratch buffer before it
C18_Witness ==
    /\ pc = "rx_loop"
    /\ handshake_received
    /\ buffer = << >>
    /\ total_bits = 32
    /\ received_data = << >>

\* C19: after the handshake the first decoded "#" ends decoding at once: it
\* is not appended to the payload and no sample is taken after it, so that
\* the received_message returned never contains "#"; every other character
\* decoded after the handshake is appended to the payload, in order.
C19_EndMarker ==
    /\ [](\A i \in 1..Len(received_data) : received_data[i] # 35)
    /\ [](ReturnedFromReceive =>
             /\ rx_result.received_message = received_data
             /\ \A i \in 1..Len(rx_result.received_message) :
                   rx_result.received_message[i] # 35)
    /\ [][/\ (SampledStep /\ handshake_received) =>
                IF StepChar = 35
                THEN /\ pc' = "rx_break"
                     /\ received_data' = received_data
                     /\ attempt_counter' = attempt_counter
                ELSE /\ pc' = "rx_loop"
                     /\ received_data' = Append(received_data, StepChar)
          /\ pc = "rx_break" =>
                /\ pc' = "idle"
                /\ received_bits' = received_bits
                /\ register_values' = register_values
                /\ received_data' = received_data
       ]_vars

\* C19 happens: the call returned after "<~!", the payload "A" and "#"
C19_Witness ==
    /\ ReturnedFromReceive
    /\ handshake_received
    /\ received_data = <<65>>
    /\ total_bits = 40
    /\ rx_result.message_success

\* the receiver's register trace grew in this step
SampleStep == register_values' # register_values /\ register_values' # << >>

\* the level the channel delivers for the symbol the transmitter sent last,
\* on the channels of the sweep (no noise, or every symbol inverted)
FinalSymbolLevel ==
    LET sent == transmitted_bits[Len(transmitted_bits)]
    IN ReceivedSignal(IF noise_level = 0 THEN sent ELSE Flip(sent),
                      ClearLevel)

\* C20: at every point of the sweep the log is written only while the
\* receiver of that point has sampled nothing, and is left alone from the
\* receiver's first sample on; every sample the receiver records is the last
\* element of the log, which is the level of the last symbol transmitted,
\* so that the register trace returned holds that level only.
C20_WriteThenRead ==
    /\ [](InReceive => /\ transmission_history # << >>
                       /\ Len(transmission_history) = Len(transmitted_bits)
                       /\ LatestLevel = FinalSymbolLevel)
    /\ [](ReturnedFromReceive =>
             \A i \in 1..Len(rx_result.register_values) :
                 rx_result.register_values[i] = LatestLevel)
    /\ [][/\ transmission_history' # transmission_history =>
                register_values' = << >>
          /\ InReceive => transmission_history' = transmission_history
          /\ SampleStep =>
                /\ InReceive
                /\ SubSeq(register_values', 1, Len(register_values)) =
                       register_values
                /\ \A i \in (Len(register_values) + 1)..Len(register_values') :
                      register_values'[i] = LatestLevel
       ]_vars

\* C20 happens: the receiver of a sweep point has recorded the 27 samples of
\* three cycles, each the last level of a log of 50 levels that also holds
\* another level
C20_Witness ==
    /\ pc = "rx_loop"
    /\ last_call.op = "receive_transmission"
    /\ attempt_counter = 3
    /\ Len(transmission_history) = 50
    /\ Len(register_values) = 27
    /\ \A i \in 1..27 : register_values[i] = LatestLevel
    /\ \E i \in 1..50 : transmission_history[i] # LatestLevel

\* the symbol that is multiplied with the attenuation in this call of
\* transmit: the argument, inverted when the noise draw fires
EffectiveSymbol ==
    IF NoiseFires(RandomAt(rng_stream, rng_pos), noise_level)
    THEN 1 - last_call'.arg
    ELSE last_call'.arg

\* C21: the level transmit logs is the effective symbol times the
\* attenuation: 0 when the effective symbol is 0, the attenuation (which is
\* not 0, and is the clear level when neither interference nor disturbance
\* acts) when it is 1; so with noise_level = 0 a transmit(0) logs 0 whatever
\* the other draws are and with noise_level = 1 a transmit(1) logs 0; and the
\* value returned is the value appended.
C21_NoiseOnSymbol ==
    [][TransmitStep =>
          /\ transmission_history' =
                Append(transmission_history, last_call'.ret)
          /\ EffectiveSymbol = 0 => last_call'.ret = 0
          /\ EffectiveSymbol = 1 =>
                /\ last_call'.ret # 0
                /\ (interference = 0 /\ natural_disturbance = 0) =>
                      last_call'.ret = ClearLevel
          /\ (noise_level = 0 /\ last_call'.arg = 0) => last_call'.ret = 0
          /\ (noise_level = 1000 /\ last_call'.arg = 1) => last_call'.ret = 0
    ]_vars

\* C21 happens: with noise_level = 1 and the interference and the
\* disturbance acting, a transmit(1) has logged 0, after a transmit(0) that
\* logged a level other than 0
C21_Witness ==
    /\ last_call.op = "transmit"
    /\ last_call.arg = 1
    /\ last_call.ret = 0
    /\ noise_level = 1000
    /\ interference = 1000
    /\ natural_disturbance = 100
    /\ Len(transmission_history) = 2
    /\ transmission_history[1] # 0
    /\ transmission_history[2] = 0

\* C22: the signal_strength of a sweep result is the level a transmit(1)
\* logs on the channel of that point when no impairment acts.
C22_SignalStrength ==
    (last_call.op = "sweep_result" /\ angle \in 0..180) =>
       last_call.result.signal_strength = ClearLevel

\* a configuration point of a sweep starts: its channel, transmitter and
\* receiver are constructed and nothing was called on them
PointStart ==
    \/ last_call.op = "sweep_point"
    \/ last_call.op = "init"

\* C23: when a configuration point of run_angle_test or run_distance_test
\* starts, the channel log is empty and the receiver's payload, bit_errors,
\* total_bits and register trace are empty or zero; and the result of the
\* point is the one its parameters give on a link that has done nothing
\* before.
C23_NoLeak ==
    /\ PointStart =>
          /\ transmission_history = << >>
          /\ received_data = << >>
          /\ bit_errors = 0
          /\ total_bits = 0
          /\ register_values = << >>
    /\ last_call.op = "sweep_result" =>
          rx_result = PointResult(Channel, rng_stream, 1, threshold,
                                  SweepMessage)

\* C23 happens: the second point of a sweep starts after a first point that
\* left 50 levels on its log, 1000 samples on its register trace and 8 bit
\* errors
C23_Witness ==
    /\ last_call.op = "sweep_point"
    /\ Len(test_results) = 1
    /\ test_results[1].bit_errors = 8
    /\ Len(test_results[1].register_samples) = 10
    /\ Len(rx_result.register_values) = 1000
    /\ transmission_history = << >>
    /\ register_values = << >>
    /\ bit_errors = 0

\* the step is a turn of the loop that builds the list of distances
ListStep == distances' # distances

\* C27: the loop of run_distance_test that builds the list of distances
\* comes to its end, every turn of it bringing current_distance nearer to
\* the point where it exceeds end_distance, and the list it builds, one
\* entry per row, is in increasing order and within end_distance.
C27_DistanceTermination ==
    /\ [](\A k \in 1..Len(distances) :
             /\ distances[k] <= end_distance
             /\ k > 1 => distances[k - 1] < distances[k])
    /\ [][ListStep =>
             end_distance - current_distance' <
                 end_distance - current_distance]_vars

\* the configuration at position i of the batch has a test type that
\* run_batch_test knows
KnownType(i) == test_configs[i].test_type \in {"angle", "distance"}

\* the rows of all_results that carry the batch id i
RowsOf(i) == {k \in 1..Len(all_results) : all_results[k].batch_id = i}

\* the points of the range of the configuration at position i
PointsOf(i) ==
    (test_configs[i].end - test_configs[i].start) \div test_configs[i].step + 1

\* C24: run_batch_test raises nothing; a configuration whose test type is
\* neither "angle" nor "distance" gives no row, every other configuration
\* that the loop has passed gives one row per point of its range, under the
\* batch id that is its position in the list counted from 1, and the rows
\* are in the order of the configurations.
C24_BatchSkip ==
    /\ raised = None
    /\ \A i \in 1..batch_index :
          Cardinality(RowsOf(i)) = IF KnownType(i) THEN PointsOf(i) ELSE 0
    /\ \A k \in 1..Len(all_results) :
          /\ all_results[k].batch_id \in 1..batch_index
          /\ all_results[k].batch_config =
                test_configs[all_results[k].batch_id]
          /\ k > 1 => all_results[k - 1].batch_id <= all_results[k].batch_id

\* C24 happens: a batch of an angle sweep, an unknown test type and a
\* distance sweep has run to its end, with two rows of the first and one of
\* the third configuration
C24_Witness ==
    /\ Len(test_configs) = 3
    /\ batch_index = 3
    /\ test_configs[1].test_type = "angle"
    /\ test_configs[2].test_type = "sweep"
    /\ test_configs[3].test_type = "distance"
    /\ Len(all_results) = 3
    /\ all_results[1].batch_id = 1
    /\ all_results[2].batch_id = 1
    /\ all_results[3].batch_id = 3

\* C25: the ber that receive_transmission returns is a rate between 0 and
\* 1: its numerator is not negative and does not exceed its denominator.
C25_BerIsRate ==
    ReturnedFromReceive =>
        /\ rx_result.ber[1] >= 0
        /\ rx_result.ber[2] > 0
        /\ rx_result.ber[1] <= rx_result.ber[2]

\* the eight samples of every byte recorded are one and the same bit
SamplesAgree ==
    \A k \in 1..Len(received_bits) :
        received_bits[k] = received_bits[k - ((k - 1) % 8)]

\* C26: the eight samples of a get_byte are equal, so that the character it
\* returns is chr(0) or chr(255); and a receive_transmission returns with
\* no handshake matched, an empty received_message, and 0 or 8000 bits
\* sampled, every character it decoded being chr(0) or chr(255).
C26_ConstantSamples ==
    /\ SamplesAgree
    /\ last_call.op = "get_byte" => last_call.ret \in {0, 255}
    /\ ReturnedFromReceive =>
          /\ ~handshake_received
          /\ rx_result.received_message = << >>
          /\ rx_result.total_bits \in {0, 8000}
          /\ Len(buffer) * 8 = rx_result.total_bits
          /\ \A k \in 1..Len(buffer) : buffer[k] \in {0, 255}

\* C26 happens: after transmit_string("A") a receive_transmission("A") has
\* returned with 8000 bits sampled and nothing decoded
C26_Witness ==
    /\ RoundTripDone
    /\ expected_message = <<65>>
    /\ Len(transmission_history) = 50
    /\ rx_result.total_bits = 8000
    /\ Len(buffer) = 1000
    /\ rx_result.received_message = << >>

====
